---------------------------- MODULE Spec2Model ----------------------------
(***************************************************************************)
(* A model of scripts/update_data.py: the batch job that reads a watchlist *)
(* of tickers, asks a quote provider (yfinance) and a history provider     *)
(* (Alpha Vantage) about each ticker, and writes data.json and, when there *)
(* are alerts, alert_content.txt.                                          *)
(*                                                                         *)
(* Numbers.  Python floats are modelled exactly, as integers with a fixed  *)
(* unit: a price or volume the providers return is a number of THOUSANDTHS *)
(* ([tag |-> "num", v |-> 25501] is 25.501); a percentage that the code    *)
(* computes is the exact ratio n/d ([tag |-> "ratio"]); a value that       *)
(* round(x, 2) wrote to a record is a number of HUNDREDTHS                 *)
(* ([tag |-> "dec2", v |-> 2550] is 25.50).                                *)
(***************************************************************************)
EXTENDS Integers, Sequences, FiniteSets, TLC

VARIABLES
    watchlist,    \* watchlist.txt: whether it exists, and its lines
    env_key,      \* os.environ.get('ALPHA_VANTAGE_KEY'): "unset", "" or a key
    data_json,    \* site/data.json: whether it exists, and the payload in it
    alert_file,   \* site/alert_content.txt: whether it exists, and its lines
    pc,           \* where main() is
    tickers,      \* main: tickers
    idx,          \* main: position of the for loop in tickers
    basics,       \* main: basics of the ticker being processed
    fetched,      \* main: (series, dates) of the ticker being processed
    stocks_out,   \* main: stocks_out
    alerts,       \* main: alerts
    exit_code,    \* what main() returned: 0 or 1 (NotReturned until it does)
    calls,        \* the provider calls and sleeps main() made, in order
    iterations,   \* what each finished loop iteration met and did, in order
    run,          \* number of the current run (the clock of lastUpdated)
    run_alerts    \* the alerts list of each run that completed, in order

vars == << watchlist, env_key, data_json, alert_file, pc, tickers, idx, basics,
           fetched, stocks_out, alerts, exit_code, calls, iterations, run,
           run_alerts >>

(***************************************************************************)
(* Bounds of the model.                                                    *)
(***************************************************************************)
MaxLines == 2       \* lines of a watchlist file
MaxRuns == 2        \* successive runs of the job over the same site directory

(***************************************************************************)
(* Python values.                                                          *)
(***************************************************************************)
PyNone == [tag |-> "None"]
NaN == [tag |-> "nan"]
Num(v) == [tag |-> "num", v |-> v]
Ratio(n, d) == [tag |-> "ratio", n |-> n, d |-> d]
Str(s) == [tag |-> "str", s |-> s]
Dec2(h) == [tag |-> "dec2", v |-> h]
JInt(k) == [tag |-> "int", v |-> k]
Null == [tag |-> "null"]

\* isinstance(x, (int, float))
IsNumber(x) == x.tag \in {"num", "ratio", "nan"}

\* bool(x), as `or` and `not` use it
Truthy(x) ==
    CASE x.tag = "None" -> FALSE
      [] x.tag = "num" -> x.v # 0
      [] x.tag = "str" -> x.s # ""
      [] OTHER -> TRUE

\* x or y
PyOr(x, y) == IF Truthy(x) THEN x ELSE y

\* float(x) raises for None and for a string that is no number
FloatRaises(x) == ~IsNumber(x)

\* a - b on floats
FSub(a, b) ==
    IF a.tag = "nan" \/ b.tag = "nan" THEN NaN ELSE Num(a.v - b.v)

\* (change / base) * 100.0, base # 0; the sign is kept in the numerator
FPct(change, base) ==
    IF change.tag = "nan" \/ base.tag = "nan" THEN NaN
    ELSE IF base.v > 0 THEN Ratio(change.v * 100, base.v)
    ELSE Ratio(-(change.v * 100), -base.v)

\* the integer nearest to n/d (d > 0), a tie going to the even one
RoundHalfEven(n, d) ==
    LET q == n \div d
        r == n % d
    IN  IF 2 * r < d THEN q
        ELSE IF 2 * r > d THEN q + 1
        ELSE IF q % 2 = 0 THEN q ELSE q + 1

\* round(float(x), 2)
Round2(x) ==
    CASE x.tag = "nan" -> NaN
      [] x.tag = "num" -> Dec2(RoundHalfEven(x.v, 10))
      [] x.tag = "ratio" -> Dec2(RoundHalfEven(x.n * 100, x.d))

\* round(float(x), 2) if isinstance(x, (int, float)) else None
Round2OrNull(x) == IF IsNumber(x) THEN Round2(x) ELSE Null

\* x > 2.0 and x < -2.0 on a computed percentage (false for nan)
GreaterThan2(x) == x.tag = "ratio" /\ x.n > 2 * x.d
LessThanMinus2(x) == x.tag = "ratio" /\ x.n < -(2 * x.d)

\* int(v) of a float: towards zero
IntOf(x) == IF x.v >= 0 THEN JInt(x.v \div 1000) ELSE JInt(-((-x.v) \div 1000))

\* xs[-n:]
LastN(xs, n) ==
    IF Len(xs) <= n THEN xs ELSE SubSeq(xs, Len(xs) - n + 1, Len(xs))

RECURSIVE SortedSeq(_)
\* sorted(S) for a set of integers
SortedSeq(S) ==
    IF S = {} THEN << >>
    ELSE LET m == CHOOSE x \in S : \A y \in S : x <= y
         IN  << m >> \o SortedSeq(S \ {m})

(***************************************************************************)
(* read_watchlist.  A line is a ticker symbol, "" (blank once stripped) or *)
(* "#" (a comment line).                                                   *)
(***************************************************************************)
Symbols == {"AAA", "BBB"}
Lines == Symbols \cup {"", "#"}

RECURSIVE SeqsUpTo(_, _)
SeqsUpTo(S, n) ==
    IF n = 0 THEN {<< >>}
    ELSE LET shorter == SeqsUpTo(S, n - 1)
         IN  shorter \cup {Append(s, x) : s \in {t \in shorter : Len(t) = n - 1}, x \in S}

MissingFile == [exists |-> FALSE]
FileOf(content) == [exists |-> TRUE, content |-> content]

WatchlistFiles == {MissingFile} \cup {FileOf(ls) : ls \in SeqsUpTo(Lines, MaxLines)}

KeepsLine(t) == t # "" /\ t # "#"

read_watchlist(file) ==
    IF ~file.exists THEN [raised |-> TRUE, tickers |-> << >>]
    ELSE [raised |-> FALSE, tickers |-> SelectSeq(file.content, KeepsLine)]

(***************************************************************************)
(* fetch_alpha_vantage_series.  The provider's answer h is a failure of    *)
(* the request ("raises": a timeout after 30 s, a network error, an HTTP   *)
(* error status or a body that is no JSON), a body without the key         *)
(* 'Time Series (Daily)' ("no_series") or a time series: a function from   *)
(* dates (day numbers, ordered like the ISO date strings) to the close of  *)
(* that date, or to Malformed where the entry has no usable '4. close'.    *)
(***************************************************************************)
HistoryLen == 30

Malformed == [tag |-> "malformed"]

fetch_alpha_vantage_series(h) ==
    IF h.tag = "raises" THEN [raised |-> TRUE, closes |-> << >>, dates |-> << >>]
    ELSE IF h.tag = "no_series" THEN [raised |-> FALSE, closes |-> << >>, dates |-> << >>]
    ELSE LET dates == LastN(SortedSeq(DOMAIN h.close), HistoryLen)
             ok(d) == h.close[d] # Malformed
         IN  [raised |-> FALSE,
              closes |-> [i \in 1..Len(SelectSeq(dates, ok)) |-> h.close[SelectSeq(dates, ok)[i]]],
              dates |-> dates]

(***************************************************************************)
(* safe_get_info and fetch_current_open_name.  The quote provider's answer *)
(* y for a ticker has y.info (raises, or a dict), y.fast_info (raises,     *)
(* None, or an object with attributes) and y.history, the answer to each   *)
(* of the four history queries (raises, or the rows of a frame).           *)
(***************************************************************************)
NoDict == [k \in {} |-> PyNone]

\* t.info or {}, inside try/except
InfoOrEmpty(y) == IF y.info.tag = "dict" THEN y.info.d ELSE NoDict

\* d.get(key) and d.get(key, default)
DictGet(d, key, default) == IF key \in DOMAIN d THEN d[key] ELSE default

safe_get_info(y, key) ==
    LET info == InfoOrEmpty(y)
    IN  IF key \in DOMAIN info /\ info[key] # PyNone THEN info[key]
        ELSE IF y.fast_info.tag = "object" /\ key \in DOMAIN y.fast_info.attrs
             THEN y.fast_info.attrs[key]
        ELSE PyNone

\* hist = t.history(...); float(hist[column].iloc[at]) when the frame has the
\* row, None when the query raises, the frame is too short or float() raises
HistoryValue(y, query, column, minRows, fromEnd) ==
    LET ans == y.history[query]
    IN  IF ans.tag = "raises" THEN PyNone
        ELSE IF Len(ans.rows) < minRows THEN PyNone
        ELSE LET row == IF fromEnd = 0 THEN ans.rows[1]
                        ELSE ans.rows[Len(ans.rows) - fromEnd + 1]
             IN  IF FloatRaises(row[column]) THEN PyNone ELSE row[column]

\* str.upper() on the market states the provider uses
Upper(s) ==
    CASE s = "regular" -> "REGULAR"
      [] s = "pre" -> "PRE"
      [] s = "closed" -> "CLOSED"
      [] OTHER -> s

\* a try/except that lets the exception of t.info through
adapter_raises_unguarded(y) ==
    \/ y.info.tag = "raises"
    \/ DictGet(InfoOrEmpty(y), "marketState", Str("REGULAR")).tag # "str"

\* what fetch_current_open_name lets through: t.info raising is caught (lines
\* 93-96), as is every safe_get_info and history query; .upper() on a market
\* state that is no string (line 149) is not
adapter_raises(y) ==
    DictGet(InfoOrEmpty(y), "marketState", Str("REGULAR")).tag # "str"

fetch_current_open_name(ticker, y) ==
    LET info == InfoOrEmpty(y)
        c1 == safe_get_info(y, "currentPrice")
        c2 == IF c1 = PyNone THEN safe_get_info(y, "lastPrice") ELSE c1
        current == IF c2 = PyNone THEN HistoryValue(y, "1d/1m", "Close", 1, 1) ELSE c2
        o1 == safe_get_info(y, "open")
        day_open == IF o1 = PyNone THEN HistoryValue(y, "1d open", "Open", 1, 0) ELSE o1
        p1 == safe_get_info(y, "previousClose")
        previous_close == IF p1 = PyNone THEN HistoryValue(y, "2d", "Close", 2, 2) ELSE p1
        v1 == safe_get_info(y, "volume")
        volume == IF v1 = PyNone THEN HistoryValue(y, "1d volume", "Volume", 1, 1) ELSE v1
        high == PyOr(DictGet(info, "fiftyTwoWeekHigh", PyNone),
                     safe_get_info(y, "fiftyTwoWeekHigh"))
        low == PyOr(DictGet(info, "fiftyTwoWeekLow", PyNone),
                    safe_get_info(y, "fiftyTwoWeekLow"))
        state == DictGet(info, "marketState", Str("REGULAR"))
        name == PyOr(DictGet(info, "longName", PyNone), DictGet(info, "shortName", PyNone))
    IN  IF adapter_raises(y) THEN [raised |-> TRUE]
        ELSE [raised |-> FALSE,
              current |-> current,
              open |-> day_open,
              previousClose |-> previous_close,
              volume |-> volume,
              fiftyTwoWeekHigh |-> high,
              fiftyTwoWeekLow |-> low,
              marketOpen |-> Upper(state.s) \in {"REGULAR", "PRE", "PREPRE"},
              companyName |-> IF Truthy(name) THEN name ELSE Str(ticker)]

(***************************************************************************)
(* The body of the loop of main() after the two fetches: the derived       *)
(* values, the record and the alert.                                       *)
(***************************************************************************)
\* lines 203-208: (day_change, pct_change), or what raises
day_change_of(current, day_open) ==
    IF current = PyNone \/ day_open = PyNone \/ day_open = Num(0)
    THEN [raised |-> FALSE, change |-> PyNone, pct |-> PyNone]
    ELSE IF FloatRaises(current) \/ FloatRaises(day_open) THEN [raised |-> TRUE]
    ELSE [raised |-> FALSE,
          change |-> FSub(current, day_open),
          pct |-> FPct(FSub(current, day_open), day_open)]

\* `previous_close != 0` in the place of `previous_close > 0`
change_from_close_nonzero(current, previous_close) ==
    IF current = PyNone \/ previous_close = PyNone \/ previous_close = Num(0)
    THEN [raised |-> FALSE, change |-> PyNone, pct |-> PyNone]
    ELSE IF FloatRaises(current) \/ FloatRaises(previous_close) THEN [raised |-> TRUE]
    ELSE [raised |-> FALSE,
          change |-> FSub(current, previous_close),
          pct |-> FPct(FSub(current, previous_close), previous_close)]

\* lines 211-215: (change_from_close, change_from_close_pct), or what raises;
\* `previous_close > 0` raises TypeError for a string and is false for nan
change_from_close_of(current, previous_close) ==
    IF current = PyNone \/ previous_close = PyNone
    THEN [raised |-> FALSE, change |-> PyNone, pct |-> PyNone]
    ELSE IF previous_close.tag = "str" THEN [raised |-> TRUE]
    ELSE IF previous_close.tag = "nan" \/ previous_close.v <= 0
    THEN [raised |-> FALSE, change |-> PyNone, pct |-> PyNone]
    ELSE IF FloatRaises(current) THEN [raised |-> TRUE]
    ELSE [raised |-> FALSE,
          change |-> FSub(current, previous_close),
          pct |-> FPct(FSub(current, previous_close), previous_close)]

\* line 226: int(volume) if isinstance(volume, (int, float)) else None;
\* int(nan) raises ValueError
volume_of(volume) ==
    IF ~IsNumber(volume) THEN [raised |-> FALSE, v |-> Null]
    ELSE IF volume.tag = "nan" THEN [raised |-> TRUE]
    ELSE [raised |-> FALSE, v |-> IntOf(volume)]

\* `>= 2.0` and `<= -2.0` in the place of `> 2.0` and `< -2.0`
alert_of_inclusive(ticker, pct_change) ==
    IF pct_change.tag = "ratio"
       /\ (pct_change.n >= 2 * pct_change.d \/ pct_change.n <= -(2 * pct_change.d))
    THEN << [ticker |-> ticker,
             direction |-> IF pct_change.n >= 2 * pct_change.d THEN "up" ELSE "down",
             percent |-> Round2(pct_change)] >>
    ELSE << >>

\* lines 236-238: the alerts this ticker appends, none or one
alert_of(ticker, pct_change) ==
    IF IsNumber(pct_change) /\ (GreaterThan2(pct_change) \/ LessThanMinus2(pct_change))
    THEN << [ticker |-> ticker,
             direction |-> IF GreaterThan2(pct_change) THEN "up" ELSE "down",
             percent |-> Round2(pct_change)] >>
    ELSE << >>

\* lines 217-232: stock_item
stock_item_of(ticker, b, day, close, vol, series, dates) ==
    [ticker |-> ticker,
     companyName |-> b.companyName,
     currentPrice |-> Round2OrNull(b.current),
     dayChange |-> Round2OrNull(day.change),
     dayChangePercent |-> Round2OrNull(day.pct),
     previousClose |-> Round2OrNull(b.previousClose),
     changeFromClose |-> Round2OrNull(close.change),
     changeFromClosePercent |-> Round2OrNull(close.pct),
     volume |-> vol.v,
     fiftyTwoWeekHigh |-> Round2OrNull(b.fiftyTwoWeekHigh),
     fiftyTwoWeekLow |-> Round2OrNull(b.fiftyTwoWeekLow),
     marketOpen |-> b.marketOpen,
     historicalData |-> LastN([i \in 1..Len(series) |-> Round2(series[i])], HistoryLen),
     historicalDates |-> IF dates # << >> THEN LastN(dates, HistoryLen) ELSE << >>]

\* lines 202-238 for one ticker: raises, or the record and the alerts to append
aggregate(ticker, b, series, dates) ==
    LET day == day_change_of(b.current, b.open)
        close == change_from_close_of(b.current, b.previousClose)
        vol == volume_of(b.volume)
    IN  IF day.raised THEN [raised |-> TRUE]
        ELSE IF close.raised THEN [raised |-> TRUE]
        ELSE IF vol.raised THEN [raised |-> TRUE]
        ELSE [raised |-> FALSE,
              item |-> stock_item_of(ticker, b, day, close, vol, series, dates),
              alert |-> alert_of(ticker, day.pct)]

\* the file written whether or not there are alerts
write_alert_file_always(before, alertList) == FileOf(alertList)

\* the file opened with 'a' in the place of 'w'
write_alert_file_append(before, alertList) ==
    IF alertList # << >>
    THEN FileOf((IF before.exists THEN before.content ELSE << >>) \o alertList)
    ELSE before

\* lines 255-258: the alert file after the run, given the one before it
write_alert_file(before, alertList) ==
    IF alertList # << >> THEN FileOf(alertList) ELSE before

(***************************************************************************)
(* What the providers may answer.                                          *)
(***************************************************************************)
Raises == [tag |-> "raises"]
Queries == {"1d/1m", "1d open", "2d", "1d volume"}
NoHistory == [q \in Queries |-> Raises]

\* info, fast_info and every history query raise
AllRaise == [info |-> Raises, fast_info |-> Raises, history |-> NoHistory]

\* every field in info
QuoteFrom(current, day_open, previous_close, volume) ==
    [info |-> [tag |-> "dict",
               d |-> [currentPrice |-> current, open |-> day_open,
                      previousClose |-> previous_close, volume |-> volume,
                      fiftyTwoWeekHigh |-> Num(30125), fiftyTwoWeekLow |-> Num(0),
                      marketState |-> Str("pre"), longName |-> Str("Acme Corp")]],
     fast_info |-> [tag |-> "None"],
     history |-> NoHistory]

\* info has the name and the state only; the rest comes from fast_info and
\* from the history queries
Frame == << [Open |-> Num(25000), Close |-> Num(24900), Volume |-> Num(900000)],
            [Open |-> Num(24900), Close |-> Num(25004), Volume |-> Num(1200500)] >>
ByFallback ==
    [info |-> [tag |-> "dict",
               d |-> [currentPrice |-> PyNone, longName |-> Str(""),
                      shortName |-> Str("Acme"), marketState |-> Str("closed")]],
     fast_info |-> [tag |-> "object",
                    attrs |-> [lastPrice |-> Num(25004), fiftyTwoWeekLow |-> Num(20000)]],
     history |-> [q \in Queries |-> IF q = "1d/1m" THEN Raises
                                    ELSE [tag |-> "frame", rows |-> Frame]]]

\* info carries marketState: None, on which .upper() raises
StateIsNone ==
    [info |-> [tag |-> "dict", d |-> [currentPrice |-> Num(25000), marketState |-> PyNone]],
     fast_info |-> [tag |-> "None"],
     history |-> NoHistory]

UpQuote == QuoteFrom(Num(25501), Num(25000), Num(25000), Num(1500000))
NaNVolume == QuoteFrom(Num(25000), Num(25000), Num(24000), NaN)

YfAnswers == {AllRaise, StateIsNone, ByFallback, UpQuote, NaNVolume}

\* the close the history provider has for date d
AvClose(d) == Num(100000 + 1004 * d)
Series(n, bad) ==
    [tag |-> "series", close |-> [d \in 1..n |-> IF d \in bad THEN Malformed ELSE AvClose(d)]]

AvAnswers == {Raises, [tag |-> "no_series"], Series(2, {}), Series(2, {1})}

(***************************************************************************)
(* main().                                                                 *)
(***************************************************************************)
NotReturned == -1
NoBasics == [raised |-> TRUE]
NoSeries == [closes |-> << >>, dates |-> << >>]
NoFile == [exists |-> FALSE]
\* a line an earlier run left in alert_content.txt
EarlierAlert == [ticker |-> "OLD", direction |-> "up", percent |-> Dec2(512)]
Keys == {"unset", "", "demo"}

\* the for statement: the body for tickers[i], or what follows the loop
AtTicker(i) == IF i <= Len(tickers') THEN "quote" ELSE "write"

\* `if alpha_key is None`: an empty credential passes
key_missing_none_only(key) == key = "unset"

\* line 180: not alpha_key
key_missing(key) == key \in {"unset", ""}

Init ==
    /\ watchlist \in WatchlistFiles
    /\ env_key \in Keys
    /\ data_json = NoFile
    /\ alert_file \in {NoFile, FileOf(<< EarlierAlert >>)}
    /\ pc = "start"
    /\ tickers = << >>
    /\ idx = 0
    /\ basics = NoBasics
    /\ fetched = NoSeries
    /\ stocks_out = << >>
    /\ alerts = << >>
    /\ exit_code = NotReturned
    /\ calls = << >>
    /\ iterations = << >>
    /\ run = 1
    /\ run_alerts = << >>

\* lines 173-177: the watchlist cannot be read
WatchlistError ==
    /\ pc = "start"
    /\ read_watchlist(watchlist).raised
    /\ pc' = "done"
    /\ exit_code' = 1
    /\ UNCHANGED << watchlist, env_key, data_json, alert_file, tickers, idx, basics,
                    fetched, stocks_out, alerts, calls, iterations, run, run_alerts >>

\* lines 173-182: the watchlist is read, the credential is missing or empty
KeyMissing ==
    /\ pc = "start"
    /\ ~read_watchlist(watchlist).raised
    /\ key_missing(env_key)
    /\ tickers' = read_watchlist(watchlist).tickers
    /\ pc' = "done"
    /\ exit_code' = 1
    /\ UNCHANGED << watchlist, env_key, data_json, alert_file, idx, basics,
                    fetched, stocks_out, alerts, calls, iterations, run, run_alerts >>

\* lines 173-187: the watchlist is read, the credential is there, the loop starts
EnterLoop ==
    /\ pc = "start"
    /\ ~read_watchlist(watchlist).raised
    /\ ~key_missing(env_key)
    /\ tickers' = read_watchlist(watchlist).tickers
    /\ stocks_out' = << >>
    /\ alerts' = << >>
    /\ idx' = 1
    /\ pc' = AtTicker(1)
    /\ UNCHANGED << watchlist, env_key, data_json, alert_file, basics, fetched,
                    exit_code, calls, iterations, run, run_alerts >>

\* what the quote provider did for the ticker, for the record of the iteration
QuoteKind(y, r) ==
    IF y = AllRaise THEN "all_raise" ELSE IF r.raised THEN "raised" ELSE "answered"

\* lines 188-197: basics = fetch_current_open_name(ticker), the provider answering y
FetchQuote(y) ==
    /\ pc = "quote"
    /\ LET r == fetch_current_open_name(tickers[idx], y)
       IN  /\ calls' = Append(calls, << "quote", tickers[idx] >>)
           /\ basics' = r
           /\ iterations' = Append(iterations,
                  [ticker |-> tickers[idx], quote |-> QuoteKind(y, r),
                   history |-> "not_called",
                   result |-> IF r.raised THEN "skipped" ELSE "pending"])
           /\ pc' = IF r.raised THEN "except" ELSE "history"
    /\ UNCHANGED << watchlist, env_key, data_json, alert_file, tickers, idx, fetched,
                    stocks_out, alerts, exit_code, run, run_alerts >>

\* line 200: series, dates = fetch_alpha_vantage_series(ticker, alpha_key), the
\* provider answering h
FetchHistory(h) ==
    /\ pc = "history"
    /\ LET r == fetch_alpha_vantage_series(h)
       IN  /\ calls' = Append(calls, << "history", tickers[idx] >>)
           /\ fetched' = IF r.raised THEN NoSeries
                         ELSE [closes |-> r.closes, dates |-> r.dates]
           /\ iterations' = [iterations EXCEPT
                  ![idx].history = IF r.raised THEN "raised"
                                   ELSE IF h.tag = "no_series" THEN "no_series"
                                   ELSE "series",
                  ![idx].result = IF r.raised THEN "skipped" ELSE "pending"]
           /\ pc' = IF r.raised THEN "except" ELSE "aggregate"
    /\ UNCHANGED << watchlist, env_key, data_json, alert_file, tickers, idx, basics,
                    stocks_out, alerts, exit_code, run, run_alerts >>

\* lines 202-241: the derived values, the record, the alert and the sleep; or
\* an exception before anything is appended
Aggregate ==
    /\ pc = "aggregate"
    /\ LET r == aggregate(tickers[idx], basics, fetched.closes, fetched.dates)
       IN  IF r.raised
           THEN /\ iterations' = [iterations EXCEPT ![idx].result = "skipped"]
                /\ pc' = "except"
                /\ UNCHANGED << stocks_out, alerts, calls, idx, tickers >>
           ELSE /\ stocks_out' = Append(stocks_out, r.item)
                /\ alerts' = alerts \o r.alert
                /\ calls' = Append(calls, << "sleep", tickers[idx] >>)
                /\ iterations' = [iterations EXCEPT ![idx].result = "record"]
                /\ idx' = idx + 1
                /\ UNCHANGED tickers
                /\ pc' = AtTicker(idx + 1)
    /\ basics' = NoBasics
    /\ fetched' = NoSeries
    /\ UNCHANGED << watchlist, env_key, data_json, alert_file, exit_code, run, run_alerts >>

\* `break` in the place of `continue`
ExceptBreak ==
    /\ pc = "except"
    /\ pc' = "write"
    /\ basics' = NoBasics
    /\ fetched' = NoSeries
    /\ UNCHANGED << watchlist, env_key, data_json, alert_file, tickers, idx, stocks_out,
                    alerts, exit_code, calls, iterations, run, run_alerts >>

\* lines 243-245: the message to stderr, then the next ticker
Except ==
    /\ pc = "except"
    /\ idx' = idx + 1
    /\ UNCHANGED tickers
    /\ pc' = AtTicker(idx + 1)
    /\ basics' = NoBasics
    /\ fetched' = NoSeries
    /\ UNCHANGED << watchlist, env_key, data_json, alert_file, stocks_out, alerts,
                    exit_code, calls, iterations, run, run_alerts >>

\* lines 247-266: data.json, the alert file when there are alerts, return 0
WriteOutputs ==
    /\ pc = "write"
    /\ data_json' = FileOf([lastUpdated |-> run, stocks |-> stocks_out])
    /\ alert_file' = write_alert_file(alert_file, alerts)
    /\ run_alerts' = Append(run_alerts, alerts)
    /\ exit_code' = 0
    /\ pc' = "done"
    /\ UNCHANGED << watchlist, env_key, tickers, idx, basics, fetched, stocks_out,
                    alerts, calls, iterations, run >>

Next ==
    \/ WatchlistError
    \/ KeyMissing
    \/ EnterLoop
    \/ \E y \in YfAnswers : FetchQuote(y)
    \/ \E h \in AvAnswers : FetchHistory(h)
    \/ Aggregate
    \/ Except
    \/ WriteOutputs

Spec == Init /\ [][Next]_vars

(***************************************************************************)
(* One run over a one-ticker watchlist, the quote provider answering with  *)
(* every combination of the values below.                                  *)
(***************************************************************************)
CurrentValues ==
    {PyNone, Str("N/A"), NaN, Num(24000), Num(24499), Num(24500), Num(25000),
     Num(25500), Num(25501), Num(25502), Num(26004)}
OpenValues == {PyNone, Str("N/A"), NaN, Num(0), Num(25000), Num(-25000)}
PreviousCloseValues == {PyNone, Str("N/A"), NaN, Num(0), Num(-1), Num(24000), Num(25000)}
VolumeValues == {PyNone, Str("N/A"), NaN, Num(1500999)}

YfRich ==
    YfAnswers \cup
    {QuoteFrom(c, o, p, v) : c \in CurrentValues, o \in OpenValues,
                             p \in PreviousCloseValues, v \in VolumeValues}
AvRich == AvAnswers \cup {Series(HistoryLen + 1, {}), Series(HistoryLen + 2, {1, 3})}

InitRich ==
    /\ watchlist \in {FileOf(<< s >>) : s \in Symbols}
    /\ env_key = "demo"
    /\ data_json = NoFile
    /\ alert_file = NoFile
    /\ pc = "start"
    /\ tickers = << >>
    /\ idx = 0
    /\ basics = NoBasics
    /\ fetched = NoSeries
    /\ stocks_out = << >>
    /\ alerts = << >>
    /\ exit_code = NotReturned
    /\ calls = << >>
    /\ iterations = << >>
    /\ run = 1
    /\ run_alerts = << >>

NextRich ==
    \/ EnterLoop
    \/ \E y \in YfRich : FetchQuote(y)
    \/ \E h \in AvRich : FetchHistory(h)
    \/ Aggregate
    \/ Except
    \/ WriteOutputs

SpecRich == InitRich /\ [][NextRich]_vars

(***************************************************************************)
(* Successive runs of the job over the same site directory, which is empty *)
(* before the first run.  Each run is a new process: it finds the files    *)
(* the runs before it left, and the watchlist and the environment of the   *)
(* day.                                                                    *)
(***************************************************************************)
RunWatchlists == {MissingFile, FileOf(<< "AAA" >>), FileOf(<< "AAA", "#", "BBB" >>)}
RunKeys == {"", "demo"}
YfRuns == {UpQuote, ByFallback, NaNVolume}
AvRuns == {Raises, [tag |-> "no_series"]}

InitRuns ==
    /\ watchlist \in RunWatchlists
    /\ env_key \in RunKeys
    /\ data_json = NoFile
    /\ alert_file = NoFile
    /\ pc = "start"
    /\ tickers = << >>
    /\ idx = 0
    /\ basics = NoBasics
    /\ fetched = NoSeries
    /\ stocks_out = << >>
    /\ alerts = << >>
    /\ exit_code = NotReturned
    /\ calls = << >>
    /\ iterations = << >>
    /\ run = 1
    /\ run_alerts = << >>

\* the scheduler starts the job again: a new process, the files as they are
NewRun ==
    /\ pc = "done"
    /\ run < MaxRuns
    /\ run' = run + 1
    /\ watchlist' \in RunWatchlists
    /\ env_key' \in RunKeys
    /\ pc' = "start"
    /\ tickers' = << >>
    /\ idx' = 0
    /\ stocks_out' = << >>
    /\ alerts' = << >>
    /\ exit_code' = NotReturned
    /\ calls' = << >>
    /\ iterations' = << >>
    /\ UNCHANGED << data_json, alert_file, basics, fetched, run_alerts >>

NextRuns ==
    \/ WatchlistError
    \/ KeyMissing
    \/ EnterLoop
    \/ \E y \in YfRuns : FetchQuote(y)
    \/ \E h \in AvRuns : FetchHistory(h)
    \/ Aggregate
    \/ Except
    \/ WriteOutputs
    \/ NewRun

SpecRuns == InitRuns /\ [][NextRuns]_vars

(***************************************************************************)
(* Properties.                                                             *)
(***************************************************************************)
\* the iterations that appended a record
Recorded(j) == iterations[j].result = "record"
\* the place in stocks_out of the record iteration j appended
Rank(j) == Cardinality({k \in 1..j : Recorded(k)})
RecordOf(j) == stocks_out[Rank(j)]
StartupFails == read_watchlist(watchlist).raised \/ env_key \in {"unset", ""}
IsPrefix(xs, ys) == Len(xs) <= Len(ys) /\ SubSeq(ys, 1, Len(xs)) = xs

\* C1: when the watchlist cannot be read or the credential is missing or empty,
\* main() makes no provider call for any ticker and returns 1 straight from the
\* start; and it returns a non-zero status in these two cases only.
C1_AbortOnlyAtStartup ==
    /\ StartupFails => /\ calls = << >>
                       /\ iterations = << >>
                       /\ stocks_out = << >>
                       /\ pc \in {"start", "done"}
                       /\ pc = "done" => exit_code = 1
    /\ (pc = "done" /\ exit_code # 0) => StartupFails
    /\ pc = "done" <=> exit_code # NotReturned

\* C1, witness: a run over a readable watchlist with tickers has returned 1 for
\* an empty credential.
C1_Witness ==
    /\ pc = "done"
    /\ exit_code = 1
    /\ watchlist.exists
    /\ Len(tickers) > 0
    /\ env_key = ""

\* C2: what holds in every state of a run, whatever failed
C2_State ==
    /\ Len(stocks_out) = Cardinality({j \in DOMAIN iterations : Recorded(j)})
    /\ \A j \in DOMAIN iterations :
          /\ iterations[j].ticker = tickers[j]
          /\ Recorded(j) => RecordOf(j).ticker = tickers[j]
    /\ \A a \in DOMAIN alerts :
          \E j \in DOMAIN iterations : Recorded(j) /\ alerts[a].ticker = tickers[j]
    /\ (pc \in {"write", "done"} /\ ~StartupFails) =>
          /\ Len(iterations) = Len(tickers)
          /\ \A j \in DOMAIN iterations : iterations[j].result \in {"record", "skipped"}
    /\ (pc = "done" /\ ~StartupFails) =>
          /\ exit_code = 0
          /\ data_json = FileOf([lastUpdated |-> run, stocks |-> stocks_out])

\* C2: what a step of a run may do to the records and the alerts
C2_Step ==
    /\ (pc' = "except" \/ pc = "except") => (stocks_out' = stocks_out /\ alerts' = alerts)
    /\ pc # "start" => (IsPrefix(stocks_out, stocks_out') /\ IsPrefix(alerts, alerts'))

\* C2: a ticker whose processing raises, at any point, adds no record and no
\* alert; the records of the other tickers stay as they were appended, in
\* watchlist order; every ticker of the watchlist is processed; the run writes
\* these records and returns 0.
C2_FailureIsolation == [](C2_State) /\ [][C2_Step]_vars

\* C2, witness: a finished run in which a ticker failed after its history call
\* and the ticker after it has its record in stocks_out.
C2_Witness ==
    /\ pc = "done"
    /\ exit_code = 0
    /\ \E j \in DOMAIN iterations :
          /\ iterations[j].result = "skipped"
          /\ iterations[j].history = "series"
          /\ \E k \in (j + 1)..Len(iterations) : Recorded(k)

\* C3: in every record, historicalData and historicalDates have the same
\* length, at most 30, and entry i of historicalData is the close of the date
\* at entry i of historicalDates.
C3_ParallelHistory ==
    \A k \in DOMAIN stocks_out :
        LET r == stocks_out[k]
        IN  /\ Len(r.historicalData) = Len(r.historicalDates)
            /\ Len(r.historicalData) <= HistoryLen
            /\ \A i \in DOMAIN r.historicalData :
                  r.historicalData[i] = Round2(AvClose(r.historicalDates[i]))

\* the step of Aggregate that appends a record
AppendsRecord == Len(stocks_out') = Len(stocks_out) + 1
NewRecord == stocks_out'[Len(stocks_out')]
NewAlerts == SubSeq(alerts', Len(alerts) + 1, Len(alerts'))
Above2(p) == p.tag = "dec2" /\ p.v > 200
BelowMinus2(p) == p.tag = "dec2" /\ p.v < -200

\* C4 as stated, p being the record's dayChangePercent (rounded to 2 decimals):
\* the ticker gets an alert iff p is there and p > 2.0 or p < -2.0, the
\* direction is "up" iff p > 2.0, and it gets one alert at most.
C4_AlertOnRoundedStep ==
    AppendsRecord =>
        LET p == NewRecord.dayChangePercent
        IN  /\ Len(NewAlerts) <= 1
            /\ Len(NewAlerts) = 1 <=> (Above2(p) \/ BelowMinus2(p))
            /\ \A a \in DOMAIN NewAlerts : NewAlerts[a].direction = "up" <=> Above2(p)
C4_AlertOnRounded == [][C4_AlertOnRoundedStep]_vars

\* the percentage before rounding, (current - open) / open * 100, is above 2
\* or below -2: said of the provider's numbers, in thousandths
BothNumbers(b) == b.current.tag = "num" /\ b.open.tag = "num" /\ b.open.v # 0
ExactAbove2(b) ==
    /\ BothNumbers(b)
    /\ IF b.open.v > 0 THEN 100 * (b.current.v - b.open.v) > 2 * b.open.v
       ELSE 100 * (b.current.v - b.open.v) < 2 * b.open.v
ExactBelowMinus2(b) ==
    /\ BothNumbers(b)
    /\ IF b.open.v > 0 THEN 100 * (b.current.v - b.open.v) < -(2 * b.open.v)
       ELSE 100 * (b.current.v - b.open.v) > -(2 * b.open.v)

C4_AlertOnExactStep ==
    /\ AppendsRecord =>
          LET p == NewRecord.dayChangePercent
          IN  /\ Len(NewAlerts) <= 1
              /\ Len(NewAlerts) = 1 <=> (ExactAbove2(basics) \/ ExactBelowMinus2(basics))
              /\ \A a \in DOMAIN NewAlerts :
                    /\ NewAlerts[a].ticker = NewRecord.ticker
                    /\ NewAlerts[a].direction = "up" <=> ExactAbove2(basics)
                    /\ NewAlerts[a].direction = "down" <=> ExactBelowMinus2(basics)
                    /\ NewAlerts[a].percent = p
                    /\ p.tag = "dec2"
                    /\ NewAlerts[a].direction = "up" => p.v >= 200
                    /\ NewAlerts[a].direction = "down" => p.v <= -200
              /\ (Above2(p) \/ BelowMinus2(p)) => Len(NewAlerts) = 1
    /\ (alerts' # alerts /\ ~AppendsRecord) => alerts' = << >>

\* C4, amended: the percentage compared with the thresholds is the one before
\* rounding.  A ticker gets an alert iff current and open are numbers, open is
\* not 0 and (current - open) / open * 100 is > 2.0 or < -2.0; the direction is
\* "up" iff it is > 2.0; the alert carries the record's dayChangePercent, which
\* is >= 2.0 for "up" and <= -2.0 for "down" (2.0 and -2.0 included); a record
\* whose dayChangePercent is > 2.0 or < -2.0 has its alert; and a ticker gets
\* one alert at most.
C4_AlertOnExact == [][C4_AlertOnExactStep]_vars

\* C4, witness: a record whose dayChangePercent is 2.0 and its "up" alert.
C4_Witness ==
    \E k \in DOMAIN stocks_out : \E a \in DOMAIN alerts :
        /\ stocks_out[k].dayChangePercent = Dec2(200)
        /\ alerts[a] = [ticker |-> stocks_out[k].ticker, direction |-> "up",
                        percent |-> Dec2(200)]

\* previous_close > 0, of a provider's value
Positive(x) == x.tag = "num" /\ x.v > 0

C5_ChangeFieldsStep ==
    AppendsRecord =>
        LET r == NewRecord
            b == basics
            dayThere == b.current # PyNone /\ b.open # PyNone /\ b.open # Num(0)
            closeThere == b.current # PyNone /\ b.previousClose # PyNone
                          /\ Positive(b.previousClose)
        IN  /\ dayThere => (r.dayChange # Null /\ r.dayChangePercent # Null)
            /\ ~dayThere => (r.dayChange = Null /\ r.dayChangePercent = Null)
            /\ closeThere => (r.changeFromClose # Null /\ r.changeFromClosePercent # Null)
            /\ ~closeThere => (r.changeFromClose = Null /\ r.changeFromClosePercent = Null)
            /\ b.current = PyNone => r.currentPrice = Null
            /\ b.previousClose = PyNone => r.previousClose = Null
            /\ b.volume = PyNone => r.volume = Null
            /\ b.fiftyTwoWeekHigh = PyNone => r.fiftyTwoWeekHigh = Null
            /\ b.fiftyTwoWeekLow = PyNone => r.fiftyTwoWeekLow = Null

\* C5: in every record, dayChange and dayChangePercent are there exactly when
\* current and open are there and open is not 0, and are null otherwise;
\* changeFromClose and changeFromClosePercent are there exactly when current
\* and previous close are there and previous close > 0, and are null
\* otherwise; a value that is not available is written null, never 0.
C5_ChangeFields == [][C5_ChangeFieldsStep]_vars

\* C5, witness: a record with a current price and a previous close that is not
\* positive: dayChange is there, changeFromClose is null.
C5_Witness ==
    \E k \in DOMAIN stocks_out :
        /\ stocks_out[k].currentPrice = Dec2(2400)
        /\ stocks_out[k].previousClose = Dec2(0)
        /\ stocks_out[k].dayChange = Dec2(-100)
        /\ stocks_out[k].changeFromClose = Null
        /\ stocks_out[k].changeFromClosePercent = Null

\* C6: what a step may do to the two files
C6_ZeroAlertsStep ==
    /\ alert_file' # alert_file => (pc = "write" /\ alerts # << >>)
    /\ (pc = "write" /\ pc' = "done") =>
          data_json' = FileOf([lastUpdated |-> run, stocks |-> stocks_out])

\* C6: a run that produces no alert leaves alert_content.txt as it was before
\* the run (it is not created, rewritten, truncated or deleted), and data.json
\* is replaced by the payload of this run.
C6_ZeroAlertsKeepFile == [][C6_ZeroAlertsStep]_vars

\* C6, witness: a run without alerts has finished after a run that wrote the
\* alert file: the file holds the alerts of the earlier run, data.json the
\* payload of this one.
C6_Witness ==
    /\ pc = "done"
    /\ exit_code = 0
    /\ run = 2
    /\ alerts = << >>
    /\ stocks_out # << >>
    /\ alert_file.exists
    /\ alert_file.content = run_alerts[1]
    /\ data_json = FileOf([lastUpdated |-> 2, stocks |-> stocks_out])

\* C7 as stated: after a completed run, the alert file is there only when the
\* run has alerts, and then holds exactly the alerts of the run.
C7_OnlyLatestRun ==
    (pc = "done" /\ exit_code = 0) =>
        /\ alert_file.exists => alerts # << >>
        /\ alert_file.exists => alert_file.content = alerts

\* the runs completed so far that produced alerts
Alerting == {n \in DOMAIN run_alerts : run_alerts[n] # << >>}
LastAlerting == CHOOSE n \in Alerting : \A m \in Alerting : m <= n

\* C7, amended: the alert file is there exactly when some completed run so far
\* produced alerts, and its lines are exactly the alerts of the last completed
\* run that produced any: they are never accumulated across runs, and they
\* stay until a later run has alerts to replace them.
C7_LastAlertingRun ==
    /\ alert_file.exists <=> Alerting # {}
    /\ alert_file.exists => alert_file.content = run_alerts[LastAlerting]
    /\ (pc = "done" /\ exit_code = 0) =>
          /\ Len(run_alerts) > 0
          /\ run_alerts[Len(run_alerts)] = alerts
    /\ (pc = "done" /\ exit_code = 0 /\ alerts # << >>) => alert_file = FileOf(alerts)

\* C7, witness: two completed runs with different alerts; the file holds those
\* of the second.
C7_Witness ==
    /\ pc = "done"
    /\ exit_code = 0
    /\ Len(run_alerts) = 2
    /\ Len(run_alerts[1]) = 2
    /\ Len(run_alerts[2]) = 1
    /\ alert_file.content = run_alerts[2]

\* C8: a history call that fails does not surface past
\* fetch_alpha_vantage_series: the ticker is not skipped for it, and its record
\* is written with historicalData = [] and historicalDates = [].
C8_HistoryFailureIsLocal ==
    \A j \in DOMAIN iterations :
        iterations[j].history = "raised" =>
            /\ iterations[j].result # "skipped"
            /\ Recorded(j) => /\ RecordOf(j).historicalData = << >>
                              /\ RecordOf(j).historicalDates = << >>

\* C9 as stated: a ticker for which info, fast_info and every history query
\* raise is left out of stocks; the run returns 0 and goes through the other
\* tickers.
C9_AllRaiseOmitted ==
    /\ \A j \in DOMAIN iterations : iterations[j].quote = "all_raise" => ~Recorded(j)
    /\ (pc = "done" /\ ~StartupFails) =>
          (exit_code = 0 /\ Len(iterations) = Len(tickers))

\* the record of a ticker the quote provider had nothing for
EmptyQuoteRecord(r, ticker) ==
    /\ r.ticker = ticker
    /\ r.companyName = Str(ticker)
    /\ r.marketOpen = TRUE
    /\ \A f \in {"currentPrice", "dayChange", "dayChangePercent", "previousClose",
                 "changeFromClose", "changeFromClosePercent", "volume",
                 "fiftyTwoWeekHigh", "fiftyTwoWeekLow"} : r[f] = Null

\* C9, amended: when info, fast_info and every history query raise for a
\* ticker, fetch_current_open_name does not raise and the history provider is
\* still called for the ticker; the ticker is left out only if that call
\* raises, and otherwise its record is written with every quote field null,
\* companyName the ticker symbol and marketOpen true.  The run returns 0 and
\* goes through the other tickers.
C9_AllRaiseRecorded ==
    /\ \A j \in DOMAIN iterations :
          iterations[j].quote = "all_raise" =>
              /\ (j < Len(iterations) \/ pc \notin {"history"}) =>
                    iterations[j].history # "not_called"
              /\ iterations[j].result = "skipped" <=> iterations[j].history = "raised"
              /\ iterations[j].history \in {"no_series", "series"} =>
                    (Recorded(j) \/ (j = Len(iterations) /\ pc = "aggregate"))
              /\ Recorded(j) => EmptyQuoteRecord(RecordOf(j), tickers[j])
    /\ (pc = "done" /\ ~StartupFails) =>
          (exit_code = 0 /\ Len(iterations) = Len(tickers))

\* C9, witness: a finished run with the record of a ticker for which the whole
\* quote provider raised, and the record of another ticker after it.
C9_Witness ==
    /\ pc = "done"
    /\ exit_code = 0
    /\ \E j \in DOMAIN iterations :
          /\ iterations[j].quote = "all_raise"
          /\ Recorded(j)
          /\ RecordOf(j).currentPrice = Null
          /\ \E k \in (j + 1)..Len(iterations) :
                iterations[k].quote = "answered" /\ Recorded(k)

\* C10: between two consecutive history calls there is the sleep, whatever
\* became of the ticker of the first.
C10_SleepBetweenHistoryCalls ==
    \A i \in DOMAIN calls : \A j \in DOMAIN calls :
        (i < j /\ calls[i][1] = "history" /\ calls[j][1] = "history") =>
            \E k \in (i + 1)..(j - 1) : calls[k][1] = "sleep"

=============================================================================
